---- MODULE Spec2Model ----
(***************************************************************************)
(* Model of src/components/ChatBotBody/ChatBotBody.tsx: the scroll         *)
(* position controller (the three useEffect handlers and the onScroll      *)
(* handler updateIsScrolling) and the message grouping decisions made by   *)
(* the render pass.                                                        *)
(*                                                                         *)
(* The component is a React function component.  One run of the component  *)
(* function is the action Render: it captures the values the handlers      *)
(* close over and compares the dependency arrays of the three effects with *)
(* those of the previous run.  The effects whose dependencies changed are  *)
(* then flushed in declaration order, one action each, before anything     *)
(* else happens.  A state update is rendered before the next event is      *)
(* handled, and a queued scroll event is handled before the host or the    *)
(* user acts again.                                                        *)
(*                                                                         *)
(* The viewport (chatBodyRef.current) is the object whose scrollTop,       *)
(* clientHeight and scrollHeight the handlers read and whose scrollTop     *)
(* they assign: an assignment stores the assigned value as written, so     *)
(* scrollTop is the value the controller asked for.                        *)
(*                                                                         *)
(* The variables last and anchor are history variables: last is the        *)
(* handler that ran last with the values it found, anchor is the anchor    *)
(* correction whose height change the controller has still to handle.      *)
(***************************************************************************)
EXTENDS Integers, Sequences, FiniteSets, TLC

(* ------------------------------ bounds -------------------------------- *)

\* distances from the bottom are drawn from 0..MaxUnit and DefaultOffset+MaxUnit,
\* so both sides of every threshold occur
MaxUnit == 1
\* the height of the viewport
ClientHeight == 1
\* a messagePromptOffset the integrator configures, besides 0 and none
ConfiguredOffset == 1
\* the unread count the host reports when messages are unread
MaxUnread == 1
\* transcript length in the scroll specification
MaxMessages == 1
\* transcript length in the grouping specification
MaxTranscript == 3

(* -------------------------- program constants ------------------------- *)

\* settings.chatWindow?.messagePromptOffset || 30
DefaultOffset == 30

\* the value of an absent setting, and of chatBodyRef.current?.scrollHeight
\* when chatBodyRef.current is null
Undefined == -1

Distances == (0 .. MaxUnit) \cup {DefaultOffset + MaxUnit}
OffsetSettings == {Undefined, 0, ConfiguredOffset}
Senders == {"user", "bot", "system", "User"}
Contents == {"hi", "node"}

VARIABLES
    refCurrent,            \* chatBodyRef.current is a live element
    scrollTop,             \* chatBodyRef.current.scrollTop
    clientHeight,          \* chatBodyRef.current.clientHeight
    scrollHeight,          \* chatBodyRef.current.scrollHeight
    isScrolling,           \* bot state (context)
    unreadCount,           \* bot state (context)
    isLoadingChatHistory,  \* bot state (context)
    chatScrollHeight,      \* prop, state of the parent
    isChatWindowOpen,      \* useChatWindowInternal()
    isBotTyping,           \* bot state (context)
    messages,              \* useMessagesContext()
    settings,              \* useSettingsContext()
    deps,                  \* what the last run of the component captured
    pendingEffects,        \* effects of the last run still to be flushed
    scrollEvent,           \* a scroll event is queued on the viewport
    rendered,              \* the render decisions of the last run
    last,                  \* the handler that ran last and what it saw
    anchor                 \* the anchor correction whose height change is due

viewport == <<refCurrent, scrollTop, clientHeight, scrollHeight>>
botState == <<isScrolling, unreadCount, isLoadingChatHistory, chatScrollHeight>>
hostInputs == <<isChatWindowOpen, isBotTyping, messages, settings>>
react == <<deps, pendingEffects, rendered>>
vars == <<viewport, botState, hostInputs, react, scrollEvent, last, anchor>>

(* ------------------------- pure computations -------------------------- *)

\* mutant: ?? instead of ||, a configured 0 is kept
MessagePromptOffsetNullish(configured) ==
    IF configured = Undefined THEN DefaultOffset ELSE configured

\* settings.chatWindow?.messagePromptOffset || 30 : every falsy value gives 30
MessagePromptOffset(configured) ==
    IF configured = Undefined \/ configured = 0 THEN DefaultOffset ELSE configured

\* mutant: the comparison is reversed
ScrolledAwayReversed(top, client, height, configured) ==
    top + client > height - MessagePromptOffset(configured)

\* scrollTop + clientHeight < scrollHeight - (messagePromptOffset || 30)
ScrolledAway(top, client, height, configured) ==
    top + client < height - MessagePromptOffset(configured)

\* scrollTop + clientHeight >= scrollHeight - 1
WithinOneOfBottom(top, client, height) ==
    top + client >= height - 1

\* mutant: the one unit buffer is lost
BottomBufferNone(client, height) ==
    height - client

\* scrollHeight - clientHeight - 1
BottomBuffer(client, height) ==
    height - client - 1

\* mutant: && instead of ||
ShouldSnapToBottomBoth(autoJump, scrolling) ==
    autoJump /\ ~scrolling

\* mutant: the negation of isScrolling is lost
ShouldSnapToBottomScrolling(autoJump, scrolling) ==
    autoJump \/ scrolling

\* settings.chatWindow?.autoJumpToBottom || !isScrolling
ShouldSnapToBottom(autoJump, scrolling) ==
    autoJump \/ ~scrolling

\* mutant: the difference is taken the other way round
AnchorCorrectedReversed(top, height, previousHeight) ==
    top + (previousHeight - height)

\* scrollTop + (scrollHeight - chatScrollHeight)
AnchorCorrected(top, height, previousHeight) ==
    top + (height - previousHeight)

\* mutant: the reset ignores the chat window
UnreadAfterSnapUngated(open, unread) ==
    0

\* mutant: the reset is lost
UnreadAfterSnapKept(open, unread) ==
    unread

\* if (isChatWindowOpen) { setUnreadCount(0); } after a snap to the bottom
UnreadAfterSnap(open, unread) ==
    IF open THEN 0 ELSE unread

\* mutant: the reset waits for an open chat window
UnreadAfterScrollingChangeGated(scrolling, unread) ==
    IF ~scrolling /\ isChatWindowOpen THEN 0 ELSE unread

\* if (!isScrolling) { setUnreadCount(0); }
UnreadAfterScrollingChange(scrolling, unread) ==
    IF ~scrolling THEN 0 ELSE unread

\* mutant: whole messages are compared, not their senders
FirstInSeriesOfMessage(transcript, index) ==
    IF index = 0 THEN TRUE
    ELSE transcript[index + 1] # transcript[index]

\* isFirstInSeries over a given transcript; index counts from 0 as in the code
FirstInSeriesOf(transcript, index) ==
    IF index = 0 THEN TRUE
    ELSE transcript[index + 1].sender # transcript[index].sender

isFirstInSeries(index) == FirstInSeriesOf(messages, index)

(* ------------------------------ history ------------------------------- *)

Seen(op) ==
    [op |-> op, after |-> last.op, ref |-> refCurrent, scrollTop |-> scrollTop,
     held |-> deps.isScrolling, isScrolling |-> isScrolling,
     unreadCount |-> unreadCount, isLoadingChatHistory |-> isLoadingChatHistory,
     chatScrollHeight |-> chatScrollHeight]

NoHandler ==
    [op |-> "none", after |-> "none", ref |-> FALSE, scrollTop |-> 0,
     held |-> FALSE, isScrolling |-> FALSE,
     unreadCount |-> 0, isLoadingChatHistory |-> FALSE,
     chatScrollHeight |-> 0]

\* what an anchor correction started from: scrollTop - chatScrollHeight as
\* the history branch read them.  It is kept while the controller handles
\* the height change of the prepend, and dropped when the host or the user
\* acts again.
Anchored(top, previousHeight) ==
    [on |-> TRUE, base |-> top - previousHeight]

NoAnchor ==
    [on |-> FALSE, base |-> 0]

(* --------------------------- the render pass -------------------------- *)

\* renderUserMessage: isNewSender, showAvatar and the offset class
renderUserMessage(index) ==
    LET isNewSender == isFirstInSeries(index) IN
    [kind |-> "user", isNewSender |-> isNewSender,
     showAvatar |-> settings.userShowAvatar /\ isNewSender,
     offset |-> ~isNewSender /\ settings.userShowAvatar]

\* mutant: the bot avatar is shown on every bubble of a series
renderBotMessageUngrouped(index) ==
    LET isNewSender == isFirstInSeries(index) IN
    [kind |-> "bot", isNewSender |-> isNewSender,
     showAvatar |-> settings.botShowAvatar,
     offset |-> ~isNewSender /\ settings.botShowAvatar]

\* renderBotMessage: isNewSender, showAvatar and the offset class
renderBotMessage(index) ==
    LET isNewSender == isFirstInSeries(index) IN
    [kind |-> "bot", isNewSender |-> isNewSender,
     showAvatar |-> settings.botShowAvatar /\ isNewSender,
     offset |-> ~isNewSender /\ settings.botShowAvatar]

\* mutant: the system branch of messages.map is lost
RenderMessageNoSystem(index) ==
    IF messages[index + 1].sender = "user"
    THEN renderUserMessage(index)
    ELSE renderBotMessage(index)

\* the body of messages.map: a system message is a bare node, a user message
\* goes to renderUserMessage, every other sender to renderBotMessage
RenderMessage(index) ==
    IF messages[index + 1].sender = "system"
    THEN [kind |-> "bare", isNewSender |-> FALSE, showAvatar |-> FALSE, offset |-> FALSE]
    ELSE IF messages[index + 1].sender = "user"
         THEN renderUserMessage(index)
         ELSE renderBotMessage(index)

RenderTranscript ==
    [i \in 1 .. Len(messages) |-> RenderMessage(i - 1)]

\* the dependency arrays of the three effects, and the isScrolling value the
\* handlers of this run close over
Captured ==
    [length |-> Len(messages),
     isBotTyping |-> isBotTyping,
     scrollHeight |-> IF refCurrent THEN scrollHeight ELSE Undefined,
     isScrolling |-> isScrolling]

\* what the variable deps holds before the component has run
NoDeps ==
    [length |-> Undefined, isBotTyping |-> FALSE, scrollHeight |-> Undefined,
     isScrolling |-> FALSE]

\* the effects a run schedules: all of them on the first run, later those
\* whose dependencies differ from the last run's
Scheduled(old, new) ==
    IF old.length = Undefined
    THEN {"messages", "scrollHeight", "isScrolling"}
    ELSE (IF old.length # new.length \/ old.isBotTyping # new.isBotTyping
             THEN {"messages"} ELSE {})
         \cup (IF old.scrollHeight # new.scrollHeight THEN {"scrollHeight"} ELSE {})
         \cup (IF old.isScrolling # new.isScrolling THEN {"isScrolling"} ELSE {})

\* a state update not yet rendered: React runs the component again before
\* the next event is handled
Stale ==
    \/ deps.length # Len(messages)
    \/ deps.isBotTyping # isBotTyping
    \/ deps.isScrolling # isScrolling

\* no effect is waiting and no state update is waiting for its render
Idle == pendingEffects = {} /\ ~Stale

\* the host and the user act on a mounted chat body that has handled its
\* scroll events
Settled == Idle /\ refCurrent /\ ~scrollEvent

\* one run of the component function followed by its commit.  The component
\* reads chatBodyRef.current?.scrollHeight while it runs: on the first run the
\* ref is still null and the commit attaches it; on a later run the commit
\* puts the changed transcript or typing indicator into the document, which
\* may leave the viewport with another height.  A run that captures what the
\* last one captured schedules nothing and is not a step.
Render ==
    /\ pendingEffects = {}
    /\ Captured # deps
    /\ deps' = Captured
    /\ pendingEffects' = Scheduled(deps, Captured)
    /\ rendered' = RenderTranscript
    /\ refCurrent' = IF deps.length = Undefined THEN TRUE ELSE refCurrent
    /\ IF refCurrent /\ (deps.length # Len(messages) \/ deps.isBotTyping # isBotTyping)
       THEN \E d \in Distances : scrollHeight' = clientHeight + d
       ELSE UNCHANGED scrollHeight
    /\ last' = NoHandler
    /\ anchor' = IF "scrollHeight" \in Scheduled(deps, Captured) THEN anchor ELSE NoAnchor
    /\ UNCHANGED <<scrollTop, clientHeight, botState, hostInputs, scrollEvent>>

(* ------------------------- the scroll controller ---------------------- *)

\* an assignment to scrollTop that moves the viewport queues a scroll event
Queued(newTop) == scrollEvent \/ newTop # scrollTop

\* mutant: the history branch does not clear isLoadingChatHistory
EffectMessagesFlagKept ==
    /\ "messages" \in pendingEffects
    /\ pendingEffects' = pendingEffects \ {"messages"}
    /\ last' = Seen("messages")
    /\ anchor' = IF refCurrent /\ isLoadingChatHistory
                 THEN Anchored(scrollTop, chatScrollHeight)
                 ELSE NoAnchor
    /\ IF ~refCurrent
       THEN UNCHANGED <<scrollTop, isLoadingChatHistory, unreadCount, scrollEvent>>
       ELSE IF isLoadingChatHistory
       THEN /\ scrollTop' = AnchorCorrected(scrollTop, scrollHeight, chatScrollHeight)
            /\ scrollEvent' = Queued(scrollTop')
            /\ UNCHANGED isLoadingChatHistory
            /\ UNCHANGED unreadCount
       ELSE IF ShouldSnapToBottom(settings.autoJumpToBottom, deps.isScrolling)
       THEN /\ scrollTop' = scrollHeight
            /\ scrollEvent' = Queued(scrollTop')
            /\ unreadCount' = UnreadAfterSnap(isChatWindowOpen, unreadCount)
            /\ UNCHANGED isLoadingChatHistory
       ELSE UNCHANGED <<scrollTop, isLoadingChatHistory, unreadCount, scrollEvent>>
    /\ UNCHANGED <<refCurrent, clientHeight, scrollHeight, isScrolling,
                   chatScrollHeight, hostInputs, deps, rendered>>

\* useEffect(..., [messages.length, isBotTyping])
EffectMessages ==
    /\ "messages" \in pendingEffects
    /\ pendingEffects' = pendingEffects \ {"messages"}
    /\ last' = Seen("messages")
    /\ anchor' = IF refCurrent /\ isLoadingChatHistory
                 THEN Anchored(scrollTop, chatScrollHeight)
                 ELSE NoAnchor
    /\ IF ~refCurrent
       THEN UNCHANGED <<scrollTop, isLoadingChatHistory, unreadCount, scrollEvent>>
       ELSE IF isLoadingChatHistory
       THEN /\ scrollTop' = AnchorCorrected(scrollTop, scrollHeight, chatScrollHeight)
            /\ scrollEvent' = Queued(scrollTop')
            /\ isLoadingChatHistory' = FALSE
            /\ UNCHANGED unreadCount
       ELSE IF ShouldSnapToBottom(settings.autoJumpToBottom, deps.isScrolling)
       THEN /\ scrollTop' = scrollHeight
            /\ scrollEvent' = Queued(scrollTop')
            /\ unreadCount' = UnreadAfterSnap(isChatWindowOpen, unreadCount)
            /\ UNCHANGED isLoadingChatHistory
       ELSE UNCHANGED <<scrollTop, isLoadingChatHistory, unreadCount, scrollEvent>>
    /\ UNCHANGED <<refCurrent, clientHeight, scrollHeight, isScrolling,
                   chatScrollHeight, hostInputs, deps, rendered>>

\* mutant: the effect does not return when chatBodyRef.current is null
EffectScrollHeightUnguarded ==
    /\ "scrollHeight" \in pendingEffects
    /\ "messages" \notin pendingEffects
    /\ pendingEffects' = pendingEffects \ {"scrollHeight"}
    /\ last' = Seen("scrollHeight")
    /\ UNCHANGED anchor
    /\ chatScrollHeight' = scrollHeight
    /\ IF ~deps.isScrolling
       THEN /\ scrollTop' = scrollHeight
            /\ scrollEvent' = Queued(scrollTop')
            /\ unreadCount' = UnreadAfterSnap(isChatWindowOpen, unreadCount)
       ELSE UNCHANGED <<scrollTop, unreadCount, scrollEvent>>
    /\ UNCHANGED <<refCurrent, clientHeight, scrollHeight, isScrolling,
                   isLoadingChatHistory, hostInputs, deps, rendered>>

\* mutant: the height is recorded only when the effect snaps
EffectScrollHeightRecordOnSnap ==
    /\ "scrollHeight" \in pendingEffects
    /\ "messages" \notin pendingEffects
    /\ pendingEffects' = pendingEffects \ {"scrollHeight"}
    /\ last' = Seen("scrollHeight")
    /\ UNCHANGED anchor
    /\ IF ~refCurrent
       THEN UNCHANGED <<scrollTop, chatScrollHeight, unreadCount, scrollEvent>>
       ELSE IF ~deps.isScrolling
            THEN /\ chatScrollHeight' = scrollHeight
                 /\ scrollTop' = scrollHeight
                 /\ scrollEvent' = Queued(scrollTop')
                 /\ unreadCount' = UnreadAfterSnap(isChatWindowOpen, unreadCount)
            ELSE UNCHANGED <<scrollTop, chatScrollHeight, unreadCount, scrollEvent>>
    /\ UNCHANGED <<refCurrent, clientHeight, scrollHeight, isScrolling,
                   isLoadingChatHistory, hostInputs, deps, rendered>>

\* mutant: the effect honours autoJumpToBottom as the message effect does
EffectScrollHeightAutoJump ==
    /\ "scrollHeight" \in pendingEffects
    /\ "messages" \notin pendingEffects
    /\ pendingEffects' = pendingEffects \ {"scrollHeight"}
    /\ last' = Seen("scrollHeight")
    /\ UNCHANGED anchor
    /\ IF ~refCurrent
       THEN UNCHANGED <<scrollTop, chatScrollHeight, unreadCount, scrollEvent>>
       ELSE /\ chatScrollHeight' = scrollHeight
            /\ IF ShouldSnapToBottom(settings.autoJumpToBottom, deps.isScrolling)
               THEN /\ scrollTop' = scrollHeight
                    /\ scrollEvent' = Queued(scrollTop')
                    /\ unreadCount' = UnreadAfterSnap(isChatWindowOpen, unreadCount)
               ELSE UNCHANGED <<scrollTop, unreadCount, scrollEvent>>
    /\ UNCHANGED <<refCurrent, clientHeight, scrollHeight, isScrolling,
                   isLoadingChatHistory, hostInputs, deps, rendered>>

\* useEffect(..., [chatBodyRef.current?.scrollHeight])
EffectScrollHeight ==
    /\ "scrollHeight" \in pendingEffects
    /\ "messages" \notin pendingEffects
    /\ pendingEffects' = pendingEffects \ {"scrollHeight"}
    /\ last' = Seen("scrollHeight")
    /\ UNCHANGED anchor
    /\ IF ~refCurrent
       THEN UNCHANGED <<scrollTop, chatScrollHeight, unreadCount, scrollEvent>>
       ELSE /\ chatScrollHeight' = scrollHeight
            /\ IF ~deps.isScrolling
               THEN /\ scrollTop' = scrollHeight
                    /\ scrollEvent' = Queued(scrollTop')
                    /\ unreadCount' = UnreadAfterSnap(isChatWindowOpen, unreadCount)
               ELSE UNCHANGED <<scrollTop, unreadCount, scrollEvent>>
    /\ UNCHANGED <<refCurrent, clientHeight, scrollHeight, isScrolling,
                   isLoadingChatHistory, hostInputs, deps, rendered>>

\* useEffect(..., [isScrolling])
EffectIsScrolling ==
    /\ pendingEffects = {"isScrolling"}
    /\ pendingEffects' = {}
    /\ last' = Seen("isScrolling")
    /\ UNCHANGED anchor
    /\ unreadCount' = UnreadAfterScrollingChange(deps.isScrolling, unreadCount)
    /\ UNCHANGED <<viewport, isScrolling, isLoadingChatHistory, chatScrollHeight,
                   hostInputs, deps, rendered, scrollEvent>>

\* onScroll={updateIsScrolling}: the handler of the run that rendered last
updateIsScrolling ==
    /\ scrollEvent
    /\ Idle
    /\ last' = Seen("scroll")
    /\ UNCHANGED anchor
    /\ IF ~refCurrent
       THEN /\ scrollEvent' = FALSE
            /\ UNCHANGED <<isScrolling, scrollTop>>
       ELSE /\ isScrolling' = ScrolledAway(scrollTop, clientHeight, scrollHeight,
                                         settings.messagePromptOffset)
            /\ IF ~deps.isScrolling /\ WithinOneOfBottom(scrollTop, clientHeight, scrollHeight)
               THEN /\ scrollTop' = BottomBuffer(clientHeight, scrollHeight)
                    /\ scrollEvent' = (scrollTop' # scrollTop)
               ELSE /\ scrollEvent' = FALSE
                    /\ UNCHANGED scrollTop
    /\ UNCHANGED <<refCurrent, clientHeight, scrollHeight, unreadCount,
                   isLoadingChatHistory, chatScrollHeight, hostInputs, react>>

(* ------------------------ the host and the user ----------------------- *)

ScrollMessages == [sender : {"bot"}, content : {"hi"}]
AllMessages == [sender : Senders, content : Contents]

\* the messages provider appends a message
HostAppendMessage ==
    /\ Settled
    /\ Len(messages) < MaxMessages
    /\ \E m \in ScrollMessages : messages' = Append(messages, m)
    /\ last' = NoHandler
    /\ anchor' = NoAnchor
    /\ UNCHANGED <<viewport, botState, isChatWindowOpen, isBotTyping, settings,
                   react, scrollEvent>>

\* the host announces a history load: it sets isLoadingChatHistory.  The user
\* asks for older messages from within MaxUnit of the top of the transcript.
HostLoadChatHistory ==
    /\ Settled
    /\ ~isLoadingChatHistory
    /\ scrollTop \in 0 .. MaxUnit
    /\ isLoadingChatHistory' = TRUE
    /\ last' = NoHandler
    /\ anchor' = NoAnchor
    /\ UNCHANGED <<viewport, isScrolling, unreadCount, chatScrollHeight,
                   hostInputs, react, scrollEvent>>

\* the messages provider prepends an older message
HostPrependMessage ==
    /\ Settled
    /\ isLoadingChatHistory
    /\ Len(messages) < MaxMessages
    /\ \E m \in ScrollMessages : messages' = <<m>> \o messages
    /\ last' = NoHandler
    /\ anchor' = NoAnchor
    /\ UNCHANGED <<viewport, botState, isChatWindowOpen, isBotTyping, settings,
                   react, scrollEvent>>

\* the bot starts or stops typing
HostToggleTyping ==
    /\ Settled
    /\ isBotTyping' = ~isBotTyping
    /\ last' = NoHandler
    /\ anchor' = NoAnchor
    /\ UNCHANGED <<viewport, botState, isChatWindowOpen, messages, settings,
                   react, scrollEvent>>

\* the chat window is opened or closed
HostToggleChatWindow ==
    /\ Settled
    /\ isChatWindowOpen' = ~isChatWindowOpen
    /\ last' = NoHandler
    /\ anchor' = NoAnchor
    /\ UNCHANGED <<viewport, botState, isBotTyping, messages, settings,
                   react, scrollEvent>>

\* the host counts unread messages: the controller only resets the count,
\* so one count stands for every positive one
HostIncrementUnread ==
    /\ Settled
    /\ unreadCount # MaxUnread
    /\ unreadCount' = MaxUnread
    /\ last' = NoHandler
    /\ anchor' = NoAnchor
    /\ UNCHANGED <<viewport, isScrolling, isLoadingChatHistory, chatScrollHeight,
                   hostInputs, react, scrollEvent>>

\* the content of the viewport changes height
ContentHeightChange ==
    /\ Settled
    /\ \E d \in Distances :
          /\ clientHeight + d # scrollHeight
          /\ scrollHeight' = clientHeight + d
    /\ last' = NoHandler
    /\ anchor' = NoAnchor
    /\ UNCHANGED <<refCurrent, scrollTop, clientHeight, botState, hostInputs,
                   react, scrollEvent>>

\* the content of the viewport grows
ContentHeightGrowth ==
    /\ ContentHeightChange
    /\ scrollHeight' > scrollHeight

\* the user scrolls to a position d units above the bottom
UserScroll ==
    /\ Settled
    /\ \E d \in Distances :
          /\ d <= scrollHeight - clientHeight
          /\ scrollHeight - clientHeight - d # scrollTop
          /\ scrollTop' = scrollHeight - clientHeight - d
    /\ scrollEvent' = TRUE
    /\ last' = NoHandler
    /\ anchor' = NoAnchor
    /\ UNCHANGED <<refCurrent, clientHeight, scrollHeight, botState, hostInputs, react>>

\* the element leaves the document for good: chatBodyRef.current becomes null
RefDetach ==
    /\ pendingEffects = {}
    /\ refCurrent
    /\ refCurrent' = FALSE
    /\ last' = NoHandler
    /\ anchor' = NoAnchor
    /\ UNCHANGED <<scrollTop, clientHeight, scrollHeight, botState, hostInputs,
                   react, scrollEvent>>

(* --------------------------- specifications --------------------------- *)

\* the state before the component has run: the providers hold their initial
\* values and chatBodyRef.current is null
InitController ==
    /\ refCurrent = FALSE
    /\ scrollTop = 0
    /\ clientHeight = ClientHeight
    /\ scrollHeight = clientHeight
    /\ isScrolling = FALSE
    /\ unreadCount = 0
    /\ isLoadingChatHistory = FALSE
    /\ chatScrollHeight = 0
    /\ isBotTyping = FALSE
    /\ scrollEvent = FALSE
    /\ deps = NoDeps
    /\ pendingEffects = {}
    /\ rendered = <<>>
    /\ last = NoHandler
    /\ anchor = NoAnchor

Init ==
    /\ InitController
    /\ isChatWindowOpen \in BOOLEAN
    /\ messages = <<>>
    /\ settings \in [autoJumpToBottom : BOOLEAN, messagePromptOffset : OffsetSettings,
                     userShowAvatar : {TRUE}, botShowAvatar : {TRUE}]

Next ==
    \/ Render
    \/ EffectMessages
    \/ EffectScrollHeight
    \/ EffectIsScrolling
    \/ updateIsScrolling
    \/ HostAppendMessage
    \/ HostLoadChatHistory
    \/ HostPrependMessage
    \/ HostToggleTyping
    \/ HostToggleChatWindow
    \/ HostIncrementUnread
    \/ ContentHeightChange
    \/ UserScroll
    \/ RefDetach

Spec == Init /\ [][Next]_vars

\* the grouping specification: the transcript and the avatar settings are
\* drawn from every value within the bounds, the rest is as at construction
Transcripts ==
    UNION {[1 .. n -> AllMessages] : n \in 0 .. MaxTranscript}

InitGrouping ==
    /\ InitController
    /\ isChatWindowOpen = TRUE
    /\ messages \in Transcripts
    /\ settings \in [autoJumpToBottom : {FALSE}, messagePromptOffset : {Undefined},
                     userShowAvatar : BOOLEAN, botShowAvatar : BOOLEAN]

NextGrouping ==
    \/ Render
    \/ EffectMessages
    \/ EffectScrollHeight
    \/ EffectIsScrolling
    \/ updateIsScrolling

SpecGrouping == InitGrouping /\ [][NextGrouping]_vars

\* the auto-follow specification: messages arrive, the bot types and the
\* content grows; the user does not scroll and no history is loaded
InitFollow ==
    /\ InitController
    /\ isChatWindowOpen \in BOOLEAN
    /\ messages = <<>>
    /\ settings \in [autoJumpToBottom : BOOLEAN,
                     messagePromptOffset : {Undefined, ConfiguredOffset},
                     userShowAvatar : {TRUE}, botShowAvatar : {TRUE}]

NextFollow ==
    \/ Render
    \/ EffectMessages
    \/ EffectScrollHeight
    \/ EffectIsScrolling
    \/ updateIsScrolling
    \/ HostAppendMessage
    \/ HostToggleTyping
    \/ ContentHeightGrowth

SpecFollow == InitFollow /\ [][NextFollow]_vars

(* ------------------------------ claims -------------------------------- *)

\* what the handler that ran last did, in terms of what it saw
RanMessages == last.op = "messages"
RanScrollHeight == last.op = "scrollHeight"
RanIsScrolling == last.op = "isScrolling"
RanScroll == last.op = "scroll"
RanHandler == last.op # "none"

\* the controller state the handlers may write is as the handler found it
SameScrollTop == scrollTop = last.scrollTop
SameBotState ==
    /\ isScrolling = last.isScrolling
    /\ unreadCount = last.unreadCount
    /\ isLoadingChatHistory = last.isLoadingChatHistory
    /\ chatScrollHeight = last.chatScrollHeight

\* C1 as stated: whenever the message-count/typing effect has run on a
\* mounted viewport with autoJumpToBottom set or isScrolling false, scrollTop
\* equals scrollHeight.
C1_AppendSnapAsStated ==
    (RanMessages /\ last.ref /\ (settings.autoJumpToBottom \/ ~last.held))
        => scrollTop = scrollHeight

\* C1 amended: the same, when isLoadingChatHistory was false as the effect ran.
C1_AppendSnap ==
    (RanMessages /\ last.ref /\ ~last.isLoadingChatHistory
        /\ (settings.autoJumpToBottom \/ ~last.held))
        => scrollTop = scrollHeight

\* a message has arrived while the user was scrolled away with autoJumpToBottom
\* set, and the effect moved the viewport to scrollHeight
C1_Witness ==
    /\ RanMessages /\ last.ref /\ ~last.isLoadingChatHistory
    /\ settings.autoJumpToBottom /\ last.held
    /\ Len(messages) > 0
    /\ last.scrollTop # scrollHeight
    /\ scrollTop = scrollHeight

\* C2 as stated: whenever the message-count/typing effect has run with
\* isScrolling true and autoJumpToBottom false, scrollTop is what it was.
C2_NoSnapAsStated ==
    (RanMessages /\ last.held /\ ~settings.autoJumpToBottom) => SameScrollTop

\* C2 amended: the same, when isLoadingChatHistory was false as the effect ran.
C2_NoSnap ==
    (RanMessages /\ last.held /\ ~settings.autoJumpToBottom
        /\ ~last.isLoadingChatHistory) => SameScrollTop

\* a message has arrived while the user was scrolled away from the bottom of a
\* mounted viewport, and the viewport stayed where it was
C2_Witness ==
    /\ RanMessages /\ last.ref /\ last.held /\ ~settings.autoJumpToBottom
    /\ ~last.isLoadingChatHistory
    /\ Len(messages) > 0
    /\ scrollTop # scrollHeight
    /\ scrollTop = last.scrollTop

\* C3: whenever the message-count/typing effect has run on a mounted viewport
\* with isLoadingChatHistory true, scrollTop is the previous scrollTop plus
\* (scrollHeight - chatScrollHeight), and isLoadingChatHistory is false.
C3_AnchorCorrection ==
    (RanMessages /\ last.ref /\ last.isLoadingChatHistory)
        => /\ scrollTop = last.scrollTop + (scrollHeight - last.chatScrollHeight)
           /\ ~isLoadingChatHistory

\* a history load was corrected over a height that grew
C3_Witness ==
    /\ RanMessages /\ last.ref /\ last.isLoadingChatHistory
    /\ scrollHeight > last.chatScrollHeight
    /\ scrollTop > last.scrollTop
    /\ ~isLoadingChatHistory

\* C4: whenever updateIsScrolling has handled a scroll event with the
\* isScrolling it holds false and the position within 1 of the bottom,
\* scrollTop is scrollHeight - clientHeight - 1, not scrollHeight - clientHeight.
C4_BottomBuffer ==
    (RanScroll /\ last.ref /\ ~last.held
        /\ last.scrollTop + clientHeight >= scrollHeight - 1)
        => /\ scrollTop = scrollHeight - clientHeight - 1
           /\ scrollTop # scrollHeight - clientHeight

\* the user reached the exact bottom and was moved one unit up
C4_Witness ==
    /\ RanScroll /\ last.ref /\ ~last.held
    /\ last.scrollTop = scrollHeight - clientHeight
    /\ scrollTop = scrollHeight - clientHeight - 1

\* the messagePromptOffset of C5: the configured value, 30 when none is configured
ClaimedOffset ==
    IF settings.messagePromptOffset = Undefined
    THEN DefaultOffset
    ELSE settings.messagePromptOffset

\* C5: whenever updateIsScrolling has handled a scroll event on a mounted
\* viewport, isScrolling is exactly
\* scrollHeight - (scrollTop + clientHeight) > messagePromptOffset
\* for the metrics read at the start of the event.
C5_Classification ==
    (RanScroll /\ last.ref)
        => isScrolling =
              (scrollHeight - (last.scrollTop + clientHeight) > ClaimedOffset)

\* C6: whenever the isScrolling effect has run with isScrolling false,
\* unreadCount is 0, whatever the chat window, isLoadingChatHistory and
\* autoJumpToBottom are.
C6_UnreadReset ==
    (RanIsScrolling /\ ~last.held) => unreadCount = 0

\* the user came back to the bottom of a closed chat window that had unread
\* messages, and the count was reset
C6_Witness ==
    /\ RanIsScrolling /\ ~last.held /\ last.ref
    /\ last.unreadCount > 0
    /\ ~isChatWindowOpen
    /\ unreadCount = 0

\* C7 as stated: whenever any handler has run while chatBodyRef.current was
\* null, scrollTop, isScrolling, unreadCount, isLoadingChatHistory and
\* chatScrollHeight are what they were.
C7_NoViewportNoOpAsStated ==
    (RanHandler /\ ~last.ref) => (SameScrollTop /\ SameBotState)

\* C7 amended: that holds of the two effects that use the viewport and of
\* updateIsScrolling; the isScrolling effect, which does not use the
\* viewport, leaves all but unreadCount as it was.
C7_NoViewportNoOp ==
    /\ ((RanMessages \/ RanScrollHeight \/ RanScroll) /\ ~last.ref)
          => (SameScrollTop /\ SameBotState)
    /\ (RanIsScrolling /\ ~last.ref)
          => /\ SameScrollTop
             /\ isScrolling = last.isScrolling
             /\ isLoadingChatHistory = last.isLoadingChatHistory
             /\ chatScrollHeight = last.chatScrollHeight

\* the height effect ran without a viewport although the height it would
\* have recorded differs from chatScrollHeight
C7_Witness ==
    /\ RanScrollHeight /\ ~last.ref
    /\ scrollHeight # chatScrollHeight
    /\ ~last.held

\* C8 as stated: whenever any handler has run while the chat window was
\* closed, unreadCount is what it was.
C8_WindowGatesResetAsStated ==
    (RanHandler /\ ~isChatWindowOpen) => unreadCount = last.unreadCount

\* C8 amended: that holds of the message-count/typing effect, of the height
\* effect and of updateIsScrolling; the isScrolling effect is not gated.
C8_WindowGatesReset ==
    ((RanMessages \/ RanScrollHeight \/ RanScroll) /\ ~isChatWindowOpen)
        => unreadCount = last.unreadCount

\* an effect snapped to the bottom of a closed chat window and left the
\* unread messages counted
C8_Witness ==
    /\ RanMessages /\ last.ref /\ ~last.isLoadingChatHistory /\ ~last.held
    /\ ~isChatWindowOpen
    /\ scrollTop = scrollHeight
    /\ last.unreadCount > 0
    /\ unreadCount = last.unreadCount

\* the handler that ran last snapped to the bottom
SnappedToBottom ==
    /\ last.ref
    /\ \/ RanMessages /\ ~last.isLoadingChatHistory
                      /\ (settings.autoJumpToBottom \/ ~last.held)
       \/ RanScrollHeight /\ ~last.held

\* C9: whenever the message-count/typing effect or the height effect has
\* snapped to the bottom while the chat window was open, unreadCount is 0.
C9_SnapResetsUnread ==
    (SnappedToBottom /\ isChatWindowOpen) => unreadCount = 0

\* the height effect snapped to the bottom of an open chat window that had
\* unread messages
C9_Witness ==
    /\ SnappedToBottom /\ RanScrollHeight /\ isChatWindowOpen
    /\ last.unreadCount > 0
    /\ scrollTop = scrollHeight
    /\ unreadCount = 0

(* ------------------------------ grouping ------------------------------ *)

\* the senders of a transcript, in order
SendersOf(transcript) ==
    [i \in 1 .. Len(transcript) |-> transcript[i].sender]

\* the transcripts that have the senders of the current one, with any contents
SameSenders ==
    {[i \in 1 .. Len(messages) |-> [sender |-> messages[i].sender, content |-> c[i]]] :
        c \in [1 .. Len(messages) -> Contents]}

\* the last run of the component rendered the current transcript
RenderedCurrent ==
    deps.length = Len(messages)

\* C10: at every index i of every transcript, isFirstInSeries(i) is true
\* exactly when i = 0 or the sender at i differs from the sender at i - 1; a
\* transcript with the same senders and other contents gives the same value;
\* and the render pass hands that value to every user and bot bubble.
C10_Grouping ==
    /\ \A i \in 0 .. Len(messages) - 1 :
          /\ isFirstInSeries(i)
                <=> (i = 0 \/ messages[i + 1].sender # messages[i].sender)
          /\ (RenderedCurrent /\ rendered[i + 1].kind # "bare")
                => (rendered[i + 1].isNewSender <=> isFirstInSeries(i))
    /\ \A t \in SameSenders :
          \A i \in 0 .. Len(messages) - 1 :
              FirstInSeriesOf(t, i) <=> isFirstInSeries(i)

\* the transcript bot, bot, bot, with contents that differ, has been rendered
\* as first, not first, not first
C10_Witness ==
    /\ RenderedCurrent
    /\ SendersOf(messages) = <<"bot", "bot", "bot">>
    /\ messages[1].content # messages[2].content
    /\ [i \in 1 .. 3 |-> rendered[i].isNewSender] = <<TRUE, FALSE, FALSE>>

\* the showAvatar setting of the role a message is rendered in: the user
\* bubble for the sender "user", the bot bubble for every other sender
RoleShowAvatar(sender) ==
    IF sender = "user" THEN settings.userShowAvatar ELSE settings.botShowAvatar

\* C11: for every message that is not a system message, the rendered
\* showAvatar is true exactly when showAvatar is set for the role of the
\* message and the message is first in its series; with showAvatar unset for
\* a role no message of that role is rendered with an avatar.
C11_AvatarGating ==
    RenderedCurrent =>
        \A i \in 0 .. Len(messages) - 1 :
            messages[i + 1].sender # "system" =>
                /\ rendered[i + 1].showAvatar
                      <=> /\ RoleShowAvatar(messages[i + 1].sender)
                          /\ (i = 0 \/ messages[i + 1].sender # messages[i].sender)
                /\ ~RoleShowAvatar(messages[i + 1].sender)
                      => ~rendered[i + 1].showAvatar

\* user, user, bot has been rendered with avatars for the user only: the
\* first message shows one, the second is grouped, the third has none
\* although it starts a series
C11_Witness ==
    /\ RenderedCurrent
    /\ SendersOf(messages) = <<"user", "user", "bot">>
    /\ settings.userShowAvatar /\ ~settings.botShowAvatar
    /\ [i \in 1 .. 3 |-> rendered[i].showAvatar] = <<TRUE, FALSE, FALSE>>
    /\ rendered[3].isNewSender

\* C12: in every transcript and under every avatar setting a message whose
\* sender is "system" is rendered as a bare node: no bubble of either role,
\* no avatar, no offset class.
C12_SystemBypass ==
    RenderedCurrent =>
        \A i \in 0 .. Len(messages) - 1 :
            messages[i + 1].sender = "system" =>
                /\ rendered[i + 1].kind = "bare"
                /\ ~rendered[i + 1].showAvatar
                /\ ~rendered[i + 1].offset

\* system messages at the head of a transcript and after another system
\* message, with avatars set for both roles, have been rendered bare
C12_Witness ==
    /\ RenderedCurrent
    /\ SendersOf(messages) = <<"system", "system", "bot">>
    /\ settings.userShowAvatar /\ settings.botShowAvatar
    /\ rendered[1].kind = "bare" /\ rendered[2].kind = "bare"
    /\ ~rendered[1].showAvatar /\ ~rendered[2].offset
    /\ rendered[3].showAvatar

(* --------------------------- history loads ---------------------------- *)

\* the height effect has handled the height change that follows an anchor
\* correction
AnchorSettled == RanScrollHeight /\ last.ref /\ anchor.on

\* C13: whenever the message-count/typing effect has applied an anchor
\* correction and the height effect has then handled the height change of
\* the prepend, scrollTop is the scrollTop the correction started from plus
\* (scrollHeight - the chatScrollHeight the correction started from), for
\* either value of isScrolling.
C13_HistoryPrepend ==
    AnchorSettled => scrollTop = anchor.base + scrollHeight

\* C14: whenever updateIsScrolling has handled a scroll event on a mounted
\* viewport and the isScrolling it computed is false, scrollTop is not
\* scrollHeight - clientHeight.
C14_NeverAtMaxScroll ==
    (RanScroll /\ last.ref /\ ~isScrolling)
        => scrollTop # scrollHeight - clientHeight

\* the handler that ran last applied an anchor correction
AppliedCorrection == RanMessages /\ last.ref /\ last.isLoadingChatHistory

\* C15: a handler that changes isLoadingChatHistory is the message-count/
\* typing effect applying an anchor correction to a set flag, and it leaves
\* the flag false; every handler that runs after the correction, until the
\* host acts again, finds the flag false, and the height effect among them
\* handles an ordinary change: it snaps to the bottom when the isScrolling it
\* holds is false and leaves scrollTop alone otherwise.
C15_OneShotFlag ==
    /\ (RanHandler /\ isLoadingChatHistory # last.isLoadingChatHistory)
          => /\ AppliedCorrection
             /\ scrollTop = last.scrollTop + (scrollHeight - last.chatScrollHeight)
    /\ AppliedCorrection => ~isLoadingChatHistory
    /\ (RanHandler /\ anchor.on /\ ~AppliedCorrection)
          => ~last.isLoadingChatHistory /\ ~isLoadingChatHistory
    /\ AnchorSettled
          => scrollTop = IF last.held THEN last.scrollTop ELSE scrollHeight

\* after an anchor correction over a height that differs from
\* chatScrollHeight the height effect found the flag false and snapped to
\* the bottom as for an ordinary height change
C15_Witness ==
    /\ AnchorSettled /\ ~last.held
    /\ ~last.isLoadingChatHistory
    /\ last.scrollTop # scrollHeight
    /\ last.scrollTop = anchor.base + scrollHeight
    /\ anchor.base + last.chatScrollHeight # last.scrollTop
    /\ scrollTop = scrollHeight

(* --------------------------- height changes --------------------------- *)

\* C16: whenever the height effect has run on a mounted viewport,
\* chatScrollHeight is the scrollHeight of the viewport, whatever
\* isScrolling, isLoadingChatHistory and the chat window are; and whenever
\* another handler has run, chatScrollHeight is what it was.
C16_HeightTracked ==
    /\ (RanScrollHeight /\ last.ref) => chatScrollHeight = scrollHeight
    /\ (RanHandler /\ ~RanScrollHeight)
          => chatScrollHeight = last.chatScrollHeight

\* the height effect recorded a new height while the user was scrolled away,
\* a history load was announced and the chat window was closed
C16_Witness ==
    /\ RanScrollHeight /\ last.ref
    /\ last.held /\ last.isLoadingChatHistory /\ ~isChatWindowOpen
    /\ last.chatScrollHeight # scrollHeight
    /\ chatScrollHeight = scrollHeight

\* C17: whenever the height effect has run on a mounted viewport, scrollTop
\* is scrollHeight if the isScrolling it holds is false; if it is true,
\* scrollTop and unreadCount are what they were, autoJumpToBottom or not.
C17_HeightSnapDecision ==
    (RanScrollHeight /\ last.ref)
        => IF last.held
           THEN SameScrollTop /\ unreadCount = last.unreadCount
           ELSE scrollTop = scrollHeight

\* the height changed while the user was scrolled away from the bottom of an
\* open chat window with autoJumpToBottom set and unread messages counted:
\* neither scrollTop nor unreadCount moved
C17_Witness ==
    /\ RanScrollHeight /\ last.ref /\ last.held
    /\ settings.autoJumpToBottom /\ isChatWindowOpen
    /\ scrollTop # scrollHeight
    /\ scrollTop = last.scrollTop
    /\ last.unreadCount > 0
    /\ unreadCount = last.unreadCount

(* ------------------------- the scroll event loop ---------------------- *)

\* updateIsScrolling has handled the scroll event that its own assignment
\* to scrollTop had queued
Reentered == RanScroll /\ last.ref /\ last.after = "scroll"

\* C18: whenever updateIsScrolling has run again for the scroll event that
\* its own scrollTop assignment caused, scrollTop and isScrolling are what
\* they were before that run and no further scroll event is queued: the
\* loop ends after one re-entry, for every position, height and
\* messagePromptOffset within the bounds.
C18_LoopTerminates ==
    Reentered
        => /\ SameScrollTop
           /\ isScrolling = last.isScrolling
           /\ ~scrollEvent

\* the handler moved the viewport one unit above the bottom, handled the
\* scroll event of that move and found nothing to change
C18_Witness ==
    /\ Reentered /\ ~last.held
    /\ scrollTop = scrollHeight - clientHeight - 1
    /\ scrollTop = last.scrollTop
    /\ ~isScrolling /\ ~scrollEvent

(* ------------------------------ auto-follow --------------------------- *)

\* C19: in every state of a run made of message appends, typing toggles and
\* content growth, each handled by its effect, and of the scroll events the
\* controller's own scrollTop assignments cause, isScrolling is false, for
\* messagePromptOffset unset or at least 1.
C19_AutoFollowStable ==
    ~isScrolling

\* a message arrived in a transcript that had grown past the threshold: the
\* controller snapped to the bottom, handled the scroll events of its own
\* assignments and still counts the user as following
C19_Witness ==
    /\ Reentered /\ ~isScrolling
    /\ Len(messages) > 0
    /\ scrollHeight - clientHeight > MessagePromptOffset(settings.messagePromptOffset)
    /\ scrollTop = scrollHeight - clientHeight - 1
    /\ chatScrollHeight = scrollHeight

====
